---- MODULE Spec2Model ----
(***************************************************************************)
(* Model of the caching classes of 0x01-caching: BasicCache, FIFOCache,    *)
(* LIFOCache, MRUCache and LFUCache.  One cache instance (`self`) is       *)
(* constructed and then driven by arbitrary put / get calls.               *)
(*                                                                         *)
(* A Python dict is a function from its keys to their values.  An          *)
(* OrderedDict, whose order the code relies on, is a sequence of           *)
(* <<key, value>> pairs with distinct keys.  A Python list is a sequence.  *)
(***************************************************************************)
EXTENDS Integers, Sequences, FiniteSets, TLC

\* ---------------------------------------------------------------- bounds
MaxCapacity == 2
MaxFreq == 3

\* ---------------------------------------------------------------- inputs
None == "None"
Keys == {"A", "B", "C"}
Items == {"x", "y"}
KeyArgs == Keys \cup {None}
ItemArgs == Items \cup {None}
Classes == {"BasicCache", "FIFOCache", "LIFOCache", "MRUCache", "LFUCache"}
Bounded == Classes \ {"BasicCache"}

VARIABLES
    self,       \* the cache object: its class and its attributes
    stdout,     \* the lines printed by the last call
    ret,        \* the value returned by the last call
    exc,        \* the exception raised by the last call, or None
    op,         \* the last call: [name, key, item]
    putOrder,   \* the keys ever put, by time of latest successful put
                \* (recorded for the classes that order their keys by puts)
    touchOrder, \* the keys ever put, by time of latest put or hit get
                \* (recorded for the classes that order them by accesses)
    callers,    \* the threads sharing the object, each with the frame of its
                \* call in progress; empty when calls are made one at a time
    mutex       \* the lock the callers wrap around each call: its holder,
                \* "free", or NoMutex when the callers use none

vars == <<self, stdout, ret, exc, op, putOrder, touchOrder, callers, mutex>>

\* ------------------------------------------------------------------ dict
EmptyDict == <<>>

DictKeys(d) == DOMAIN d

DictLen(d) == Cardinality(DOMAIN d)

\* d[k]
DictGetItem(d, k) == d[k]

\* d.get(k)
DictGet(d, k) == IF k \in DictKeys(d) THEN DictGetItem(d, k) ELSE None

\* d[k] = v
DictSetItem(d, k, v) ==
    [x \in DOMAIN d \cup {k} |-> IF x = k THEN v ELSE d[x]]

\* del d[k]
DictDelItem_keep(d, k) == d

DictDelItem(d, k) == [x \in DOMAIN d \ {k} |-> d[x]]

\* min(d.keys()) over a non-empty dict
DictMinKey(d) == CHOOSE f \in DictKeys(d) : \A g \in DictKeys(d) : f <= g

\* ----------------------------------------------------------- OrderedDict
EmptyOD == <<>>

ODKeys(d) == {d[i][1] : i \in DOMAIN d}

ODIndex(d, k) == CHOOSE i \in DOMAIN d : d[i][1] = k

\* d[k]
ODGetItem(d, k) == d[ODIndex(d, k)][2]

\* d[k] = v : an existing key keeps its position, a new key goes last
ODSetItem(d, k, v) ==
    IF k \in ODKeys(d)
    THEN [d EXCEPT ![ODIndex(d, k)] = <<k, v>>]
    ELSE Append(d, <<k, v>>)

\* del d[k]
ODDelItem(d, k) == SelectSeq(d, LAMBDA e : e[1] # k)

\* d.move_to_end(k)
ODMoveToEnd(d, k) == Append(ODDelItem(d, k), <<k, ODGetItem(d, k)>>)

\* the key d.popitem(last) returns
ODPopKey(d, last) == IF last THEN d[Len(d)][1] ELSE d[1][1]

\* ------------------------------------------------------------------ list
\* l.remove(x): drops the first occurrence of x
ListRemove(l, x) ==
    LET i == CHOOSE j \in DOMAIN l : l[j] = x /\ \A h \in 1..(j - 1) : l[h] # x
    IN SubSeq(l, 1, i - 1) \o SubSeq(l, i + 1, Len(l))

ListHas(l, x) == \E i \in DOMAIN l : l[i] = x

\* l.pop(i): the element returned and the list that is left
ListPop(l, i) ==
    [item |-> l[i], rest |-> SubSeq(l, 1, i - 1) \o SubSeq(l, i + 1, Len(l))]

\* l.remove(x); l.append(x)
ListMoveToEnd_append_only(l, x) == Append(l, x)

ListMoveToEnd_keep(l, x) == l

ListMoveToEnd(l, x) == Append(ListRemove(l, x), x)

Discard(k) == <<"DISCARD", k>>

\* the outcome of a call: the object afterwards, what was printed, what was
\* returned, and the exception that ended it (None: returned normally)
Outcome(s, out, r, e) == [self |-> s, out |-> out, ret |-> r, exc |-> e]

\* cache_data is an OrderedDict in MRUCache and LFUCache, a dict elsewhere
IsOrdered(s) == s.cls \in {"MRUCache", "LFUCache"}

\* the keys of self.cache_data
CacheKeys(s) ==
    IF IsOrdered(s) THEN ODKeys(s.cache_data) ELSE DictKeys(s.cache_data)

\* len(self.cache_data)
CacheLen(s) ==
    IF IsOrdered(s) THEN Len(s.cache_data) ELSE DictLen(s.cache_data)

\* self.cache_data.get(key)
CacheGet(s, key) ==
    IF key \notin CacheKeys(s) THEN None
    ELSE IF IsOrdered(s) THEN ODGetItem(s.cache_data, key)
    ELSE DictGetItem(s.cache_data, key)

\* `if key is None or item is None: return`, the first statement of every put
IsNullPut_both(key, item) == key = None /\ item = None

IsNullPut(key, item) == key = None \/ item = None

\* `len(self.cache_data) >= self.MAX_ITEMS`, the test every bounded put makes
\* before it stores a new key
IsFull_strict(s) == CacheLen(s) > s.MAX_ITEMS

IsFull(s) == CacheLen(s) >= s.MAX_ITEMS

\* ------------------------------------------------------------ BasicCache
BasicCache_put_bounded(s, key, item) ==
    IF IsNullPut(key, item)
    THEN Outcome(s, <<>>, None, None)
    ELSE IF key \notin DictKeys(s.cache_data) /\ IsFull(s)
    THEN LET old == CHOOSE k \in DictKeys(s.cache_data) : TRUE
         IN Outcome([s EXCEPT !.cache_data =
                                  DictSetItem(DictDelItem(@, old), key, item)],
                    <<>>, None, None)
    ELSE Outcome([s EXCEPT !.cache_data = DictSetItem(@, key, item)],
                 <<>>, None, None)

BasicCache_put(s, key, item) ==
    IF IsNullPut(key, item)
    THEN Outcome(s, <<>>, None, None)
    ELSE Outcome([s EXCEPT !.cache_data = DictSetItem(@, key, item)],
                 <<>>, None, None)

BasicCache_get_subscript(s, key) ==
    IF key = None
    THEN Outcome(s, <<>>, None, None)
    ELSE IF key \in DictKeys(s.cache_data)
    THEN Outcome(s, <<>>, DictGetItem(s.cache_data, key), None)
    ELSE Outcome(s, <<>>, None, "KeyError")

BasicCache_get(s, key) ==
    IF key = None
    THEN Outcome(s, <<>>, None, None)
    ELSE Outcome(s, <<>>, DictGet(s.cache_data, key), None)

\* ------------------------------------------------------------- FIFOCache
\* the branch of put for a key already in cache_data
FIFOCache_put_existing(s, key, item) ==
    LET s1 == [s EXCEPT !.cache_data = DictSetItem(@, key, item)]
    IN IF ~ListHas(s1.keys, key)
       THEN Outcome(s1, <<>>, None, "ValueError")
       ELSE Outcome([s1 EXCEPT !.keys = ListMoveToEnd(@, key)],
                    <<>>, None, None)

\* the index handed to self.keys.pop: pop(0) takes the head
FIFOCache_pop_index_last(s) == Len(s.keys)

FIFOCache_pop_index(s) == 1

\* the branch of put for a key not in cache_data
FIFOCache_put_new(s, key, item) ==
    IF IsFull(s)
    THEN IF s.keys = <<>>
         THEN Outcome(s, <<>>, None, "IndexError")
         ELSE LET popped == ListPop(s.keys, FIFOCache_pop_index(s))
                  oldest_key == popped.item
                  s1 == [s EXCEPT !.keys = popped.rest]
              IN IF oldest_key \notin DictKeys(s1.cache_data)
                 THEN Outcome(s1, <<>>, None, "KeyError")
                 ELSE Outcome(
                        [s1 EXCEPT !.cache_data =
                                       DictSetItem(DictDelItem(@, oldest_key),
                                                   key, item),
                                   !.keys = Append(@, key)],
                        <<Discard(oldest_key)>>, None, None)
    ELSE Outcome([s EXCEPT !.keys = Append(@, key),
                           !.cache_data = DictSetItem(@, key, item)],
                 <<>>, None, None)

FIFOCache_put_always_new(s, key, item) ==
    IF IsNullPut(key, item)
    THEN Outcome(s, <<>>, None, None)
    ELSE FIFOCache_put_new(s, key, item)

FIFOCache_put(s, key, item) ==
    IF IsNullPut(key, item)
    THEN Outcome(s, <<>>, None, None)
    ELSE IF key \in DictKeys(s.cache_data)
    THEN FIFOCache_put_existing(s, key, item)
    ELSE FIFOCache_put_new(s, key, item)

FIFOCache_get_move(s, key) ==
    IF key = None
    THEN Outcome(s, <<>>, None, None)
    ELSE IF key \in DictKeys(s.cache_data)
    THEN Outcome([s EXCEPT !.keys = ListMoveToEnd(@, key)],
                 <<>>, DictGet(s.cache_data, key), None)
    ELSE Outcome(s, <<>>, None, None)

FIFOCache_get(s, key) ==
    IF key = None
    THEN Outcome(s, <<>>, None, None)
    ELSE Outcome(s, <<>>, DictGet(s.cache_data, key), None)

\* ------------------------------------------------------------- LIFOCache
LIFOCache_put_existing(s, key, item) ==
    LET s1 == [s EXCEPT !.cache_data = DictSetItem(@, key, item)]
    IN IF ~ListHas(s1.keys, key)
       THEN Outcome(s1, <<>>, None, "ValueError")
       ELSE Outcome([s1 EXCEPT !.keys = ListMoveToEnd(@, key)],
                    <<>>, None, None)

\* the index self.keys.pop() takes: the tail
LIFOCache_pop_index_first(s) == 1

LIFOCache_pop_index(s) == Len(s.keys)

\* the new key is stored before the eviction, whose pop() then takes it
LIFOCache_put_new_insert_first(s, key, item) ==
    IF IsFull(s)
    THEN Outcome(s, <<Discard(key)>>, None, None)
    ELSE Outcome([s EXCEPT !.keys = Append(@, key),
                           !.cache_data = DictSetItem(@, key, item)],
                 <<>>, None, None)

LIFOCache_put_new(s, key, item) ==
    IF IsFull(s)
    THEN IF s.keys = <<>>
         THEN Outcome(s, <<>>, None, "IndexError")
         ELSE LET popped == ListPop(s.keys, LIFOCache_pop_index(s))
                  recent_key == popped.item
                  s1 == [s EXCEPT !.keys = popped.rest]
              IN IF recent_key \notin DictKeys(s1.cache_data)
                 THEN Outcome(s1, <<>>, None, "KeyError")
                 ELSE Outcome(
                        [s1 EXCEPT !.cache_data =
                                       DictSetItem(DictDelItem(@, recent_key),
                                                   key, item),
                                   !.keys = Append(@, key)],
                        <<Discard(recent_key)>>, None, None)
    ELSE Outcome([s EXCEPT !.keys = Append(@, key),
                           !.cache_data = DictSetItem(@, key, item)],
                 <<>>, None, None)

LIFOCache_put(s, key, item) ==
    IF IsNullPut(key, item)
    THEN Outcome(s, <<>>, None, None)
    ELSE IF key \in DictKeys(s.cache_data)
    THEN LIFOCache_put_existing(s, key, item)
    ELSE LIFOCache_put_new(s, key, item)

LIFOCache_get(s, key) ==
    IF key = None
    THEN Outcome(s, <<>>, None, None)
    ELSE Outcome(s, <<>>, DictGet(s.cache_data, key), None)

\* -------------------------------------------------------------- MRUCache
\* the item is replaced where it is, without move_to_end
MRUCache_put_existing_no_move(s, key, item) ==
    Outcome([s EXCEPT !.cache_data = ODSetItem(@, key, item)],
            <<>>, None, None)

MRUCache_put_existing(s, key, item) ==
    Outcome([s EXCEPT !.cache_data =
                          ODSetItem(ODMoveToEnd(@, key), key, item)],
            <<>>, None, None)

MRUCache_put_new_no_print(s, key, item) ==
    IF IsFull(s)
    THEN IF s.cache_data = EmptyOD
         THEN Outcome(s, <<>>, None, "KeyError")
         ELSE LET recent_key == ODPopKey(s.cache_data, TRUE)
              IN Outcome(
                   [s EXCEPT !.cache_data =
                                 ODSetItem(ODDelItem(@, recent_key),
                                           key, item)],
                   <<>>, None, None)
    ELSE Outcome([s EXCEPT !.cache_data = ODSetItem(@, key, item)],
                 <<>>, None, None)

MRUCache_put_new(s, key, item) ==
    IF IsFull(s)
    THEN IF s.cache_data = EmptyOD
         THEN Outcome(s, <<>>, None, "KeyError")
         ELSE LET recent_key == ODPopKey(s.cache_data, TRUE)
              IN Outcome(
                   [s EXCEPT !.cache_data =
                                 ODSetItem(ODDelItem(@, recent_key),
                                           key, item)],
                   <<Discard(recent_key)>>, None, None)
    ELSE Outcome([s EXCEPT !.cache_data = ODSetItem(@, key, item)],
                 <<>>, None, None)

MRUCache_put_always_new(s, key, item) ==
    IF IsNullPut(key, item)
    THEN Outcome(s, <<>>, None, None)
    ELSE MRUCache_put_new(s, key, item)

MRUCache_put(s, key, item) ==
    IF IsNullPut(key, item)
    THEN Outcome(s, <<>>, None, None)
    ELSE IF key \in ODKeys(s.cache_data)
    THEN MRUCache_put_existing(s, key, item)
    ELSE MRUCache_put_new(s, key, item)

MRUCache_get_no_move(s, key) ==
    IF key \in ODKeys(s.cache_data)
    THEN Outcome(s, <<>>, ODGetItem(s.cache_data, key), None)
    ELSE Outcome(s, <<>>, None, None)

MRUCache_get(s, key) ==
    IF key \in ODKeys(s.cache_data)
    THEN Outcome([s EXCEPT !.cache_data = ODMoveToEnd(@, key)],
                 <<>>, ODGetItem(s.cache_data, key), None)
    ELSE Outcome(s, <<>>, None, None)

\* -------------------------------------------------------------- LFUCache
\* del self.order_map[freq][key], and the bucket with it once it is empty
OrderMapRemove_keep_empty(om, freq, key) ==
    DictSetItem(om, freq, ODDelItem(DictGetItem(om, freq), key))

OrderMapRemove(om, freq, key) ==
    LET left == ODDelItem(DictGetItem(om, freq), key)
    IN IF left = EmptyOD
       THEN DictDelItem(om, freq)
       ELSE DictSetItem(om, freq, left)

\* self.order_map[freq][key] = None, in a new bucket when there is none
OrderMapAppend(om, freq, key) ==
    LET om1 == IF freq \in DictKeys(om)
               THEN om
               ELSE DictSetItem(om, freq, EmptyOD)
    IN DictSetItem(om1, freq, ODSetItem(DictGetItem(om1, freq), key, None))

\* _update_freq: the object afterwards and the exception raised, if any
LFUCache_update_freq(s, key) ==
    IF key \notin ODKeys(s.cache_data)
    THEN [self |-> s, exc |-> None]
    ELSE LET freq == IF key \in DictKeys(s.freq_map)
                     THEN DictGetItem(s.freq_map, key) ELSE 0
             s1 == [s EXCEPT !.freq_map = DictSetItem(@, key, freq + 1)]
             new_freq == freq + 1
         IN IF freq \in DictKeys(s1.order_map)
            THEN IF key \notin ODKeys(DictGetItem(s1.order_map, freq))
                 THEN [self |-> s1, exc |-> "KeyError"]
                 ELSE [self |-> [s1 EXCEPT !.order_map =
                                   OrderMapAppend(
                                       OrderMapRemove(@, freq, key),
                                       new_freq, key)],
                       exc |-> None]
            ELSE [self |-> [s1 EXCEPT !.order_map =
                                          OrderMapAppend(@, new_freq, key)],
                  exc |-> None]

\* the last lines of put: store the new key with frequency 1
LFUCache_insert(s, key, item) ==
    [s EXCEPT !.cache_data = ODSetItem(@, key, item),
              !.freq_map = DictSetItem(@, key, 1),
              !.order_map = OrderMapAppend(@, 1, key)]

LFUCache_put_existing(s, key, item) ==
    LET u == LFUCache_update_freq(
                 [s EXCEPT !.cache_data = ODSetItem(@, key, item)], key)
    IN Outcome(u.self, <<>>, None, u.exc)

\* the end lfu_items.popitem(last=False) pops: the front of the bucket
LFUCache_popitem_last_true == TRUE

LFUCache_popitem_last == FALSE

LFUCache_put_new(s, key, item) ==
    IF IsFull(s)
    THEN IF s.order_map = EmptyDict
         THEN Outcome(s, <<>>, None, "ValueError")
         ELSE LET min_freq == DictMinKey(s.order_map)
                  lfu_items == DictGetItem(s.order_map, min_freq)
              IN IF lfu_items # EmptyOD
                 THEN LET lru_key == ODPopKey(lfu_items,
                                                LFUCache_popitem_last)
                          left == ODDelItem(lfu_items, lru_key)
                          s1 == [s EXCEPT !.order_map =
                                              DictSetItem(@, min_freq, left)]
                      IN IF lru_key \notin ODKeys(s1.cache_data)
                            \/ lru_key \notin DictKeys(s1.freq_map)
                         THEN Outcome(
                                [s1 EXCEPT !.cache_data =
                                               ODDelItem(@, lru_key)],
                                <<Discard(lru_key)>>, None, "KeyError")
                         ELSE LET s2 == [s1 EXCEPT
                                           !.cache_data =
                                               ODDelItem(@, lru_key),
                                           !.freq_map =
                                               DictDelItem(@, lru_key),
                                           !.order_map =
                                               IF left = EmptyOD
                                               THEN DictDelItem(@, min_freq)
                                               ELSE @]
                              IN Outcome(LFUCache_insert(s2, key, item),
                                         <<Discard(lru_key)>>, None, None)
                 ELSE Outcome(
                        LFUCache_insert(
                          [s EXCEPT !.order_map = DictDelItem(@, min_freq)],
                          key, item),
                        <<>>, None, None)
    ELSE Outcome(LFUCache_insert(s, key, item), <<>>, None, None)

LFUCache_put(s, key, item) ==
    IF IsNullPut(key, item)
    THEN Outcome(s, <<>>, None, None)
    ELSE IF key \in ODKeys(s.cache_data)
    THEN LFUCache_put_existing(s, key, item)
    ELSE LFUCache_put_new(s, key, item)

LFUCache_get_no_update(s, key) ==
    IF key \in ODKeys(s.cache_data)
    THEN Outcome(s, <<>>, ODGetItem(s.cache_data, key), None)
    ELSE Outcome(s, <<>>, None, None)

LFUCache_get(s, key) ==
    IF key \in ODKeys(s.cache_data)
    THEN LET u == LFUCache_update_freq(s, key)
         IN Outcome(u.self, <<>>,
                    IF u.exc = None THEN ODGetItem(s.cache_data, key)
                    ELSE None,
                    u.exc)
    ELSE Outcome(s, <<>>, None, None)

\* ---------------------------------------------------------- construction
\* BaseCaching.__init__ gives every cache an empty cache_data; MAX_ITEMS is
\* the capacity the class is configured with
BaseCaching_init(cls, max_items) ==
    [cls |-> cls, MAX_ITEMS |-> max_items, cache_data |-> EmptyDict]

BasicCache_init(max_items) == BaseCaching_init("BasicCache", max_items)

FIFOCache_init(max_items) ==
    [cls |-> "FIFOCache", MAX_ITEMS |-> max_items,
     cache_data |-> BaseCaching_init("FIFOCache", max_items).cache_data,
     keys |-> <<>>]

LIFOCache_init(max_items) ==
    [cls |-> "LIFOCache", MAX_ITEMS |-> max_items,
     cache_data |-> BaseCaching_init("LIFOCache", max_items).cache_data,
     keys |-> <<>>]

MRUCache_init(max_items) ==
    [cls |-> "MRUCache", MAX_ITEMS |-> max_items, cache_data |-> EmptyOD]

LFUCache_init(max_items) ==
    [cls |-> "LFUCache", MAX_ITEMS |-> max_items, cache_data |-> EmptyOD,
     freq_map |-> EmptyDict, order_map |-> EmptyDict]

New(cls, max_items) ==
    CASE cls = "BasicCache" -> BasicCache_init(max_items)
      [] cls = "FIFOCache" -> FIFOCache_init(max_items)
      [] cls = "LIFOCache" -> LIFOCache_init(max_items)
      [] cls = "MRUCache" -> MRUCache_init(max_items)
      [] cls = "LFUCache" -> LFUCache_init(max_items)

NoCall == [name |-> "init", key |-> None, item |-> None]

\* one caller at a time, hence no lock
NoCallers == <<>>
NoMutex == "absent"

Init ==
    /\ \E cls \in Classes, max_items \in 1..MaxCapacity :
           self = New(cls, max_items)
    /\ stdout = <<>>
    /\ ret = None
    /\ exc = None
    /\ op = NoCall
    /\ putOrder = <<>>
    /\ touchOrder = <<>>
    /\ callers = NoCallers
    /\ mutex = NoMutex

\* ----------------------------------------------------------------- calls
\* A call touches its key when it is a put that stores it or a get that
\* finds it.
Touches(name, key, item, r) ==
    /\ r.exc = None
    /\ IF name = "put"
       THEN key # None /\ item # None
       ELSE key \in CacheKeys(self)

\* s with key moved to (or added at) the end: key is now the latest
Latest(s, key) == Append(SelectSeq(s, LAMBDA k : k # key), key)

\* the frequency counts of an LFUCache stay within MaxFreq
FreqBounded(s) ==
    s.cls = "LFUCache" =>
        \A k \in DictKeys(s.freq_map) : s.freq_map[k] <= MaxFreq

\* the classes whose order of eviction follows the accesses (put and get);
\* the others follow the puts alone
OrdersByAccess(s) == s.cls \in {"MRUCache", "LFUCache"}

\* One call of a method with outcome r.  putOrder and touchOrder record the
\* history of the calls: oldest first, latest last.
Call(name, key, item, r) ==
    LET touch == Touches(name, key, item, r)
    IN /\ FreqBounded(r.self)
       /\ self' = r.self
       /\ stdout' = r.out
       /\ ret' = r.ret
       /\ exc' = r.exc
       /\ op' = [name |-> name, key |-> key, item |-> item]
       /\ putOrder' = IF touch /\ name = "put" /\ ~OrdersByAccess(self)
                      THEN Latest(putOrder, key) ELSE putOrder
       /\ touchOrder' = IF touch /\ OrdersByAccess(self)
                        THEN Latest(touchOrder, key) ELSE touchOrder
       /\ UNCHANGED <<callers, mutex>>

BasicPut ==
    /\ self.cls = "BasicCache"
    /\ \E key \in KeyArgs, item \in ItemArgs :
           Call("put", key, item, BasicCache_put(self, key, item))

BasicGet ==
    /\ self.cls = "BasicCache"
    /\ \E key \in KeyArgs : Call("get", key, None, BasicCache_get(self, key))

FIFOPut ==
    /\ self.cls = "FIFOCache"
    /\ \E key \in KeyArgs, item \in ItemArgs :
           Call("put", key, item, FIFOCache_put(self, key, item))

FIFOGet ==
    /\ self.cls = "FIFOCache"
    /\ \E key \in KeyArgs : Call("get", key, None, FIFOCache_get(self, key))

LIFOPut ==
    /\ self.cls = "LIFOCache"
    /\ \E key \in KeyArgs, item \in ItemArgs :
           Call("put", key, item, LIFOCache_put(self, key, item))

LIFOGet ==
    /\ self.cls = "LIFOCache"
    /\ \E key \in KeyArgs : Call("get", key, None, LIFOCache_get(self, key))

MRUPut ==
    /\ self.cls = "MRUCache"
    /\ \E key \in KeyArgs, item \in ItemArgs :
           Call("put", key, item, MRUCache_put(self, key, item))

MRUGet ==
    /\ self.cls = "MRUCache"
    /\ \E key \in KeyArgs : Call("get", key, None, MRUCache_get(self, key))

LFUPut ==
    /\ self.cls = "LFUCache"
    /\ \E key \in KeyArgs, item \in ItemArgs :
           Call("put", key, item, LFUCache_put(self, key, item))

LFUGet ==
    /\ self.cls = "LFUCache"
    /\ \E key \in KeyArgs : Call("get", key, None, LFUCache_get(self, key))

Next ==
    \/ BasicPut \/ BasicGet
    \/ FIFOPut \/ FIFOGet
    \/ LIFOPut \/ LIFOGet
    \/ MRUPut \/ MRUGet
    \/ LFUPut \/ LFUGet

Spec == Init /\ [][Next]_vars

\* the dispatch of self.get(key) on the class of s
Get(s, key) ==
    CASE s.cls = "BasicCache" -> BasicCache_get(s, key)
      [] s.cls = "FIFOCache" -> FIFOCache_get(s, key)
      [] s.cls = "LIFOCache" -> LIFOCache_get(s, key)
      [] s.cls = "MRUCache" -> MRUCache_get(s, key)
      [] s.cls = "LFUCache" -> LFUCache_get(s, key)

\* ------------------------------------------------------------ properties
IsBounded == self.cls \in Bounded

Size == CacheLen(self)

Cached == CacheKeys(self)

ListSet(l) == {l[i] : i \in DOMAIN l}

\* the member of S that comes first / last in the sequence order
First(order, S) ==
    order[CHOOSE i \in DOMAIN order :
              order[i] \in S /\ \A j \in 1..(i - 1) : order[j] \notin S]

Last(order, S) ==
    order[CHOOSE i \in DOMAIN order :
              order[i] \in S /\ \A j \in (i + 1)..Len(order) : order[j] \notin S]

\* this step is a put, by a cache of class cls, of a key that is not cached,
\* made when the cache holds MAX_ITEMS entries
FullPutOfNewKey(cls) ==
    /\ self.cls = cls
    /\ op'.name = "put"
    /\ op'.key # None /\ op'.item # None
    /\ op'.key \notin Cached
    /\ Size = self.MAX_ITEMS

\* this step is a put of a key that is cached
PutOfCachedKey ==
    /\ op'.name = "put"
    /\ op'.key \in Cached
    /\ op'.item # None

\* this step evicts k and no other key, and announces it
Evicts(k) ==
    /\ exc' = None
    /\ stdout' = <<Discard(k)>>
    /\ k \in Cached
    /\ CacheKeys(self') = (Cached \ {k}) \cup {op'.key}

\* C1: in every bounded cache built with MAX_ITEMS >= 1, after every put or
\* get the number of entries in cache_data is at most MAX_ITEMS.
CapacityInvariant == IsBounded => Size <= self.MAX_ITEMS

\* a bounded cache that is full right after a put that evicted
CapacityWitness ==
    IsBounded /\ op.name = "put" /\ stdout # <<>> /\ Size = self.MAX_ITEMS

\* C2: in FIFOCache and LIFOCache the order list `keys` holds exactly the
\* keys of cache_data, each exactly once, after every put or get.
KeysMatchStore ==
    self.cls \in {"FIFOCache", "LIFOCache"} =>
        /\ ListSet(self.keys) = Cached
        /\ Len(self.keys) = Cardinality(ListSet(self.keys))

\* a FIFO / LIFO cache of capacity 2 that has been given three keys and has
\* just discarded one of them
KeysMatchStoreWitness ==
    /\ self.cls \in {"FIFOCache", "LIFOCache"}
    /\ Len(putOrder) = 3
    /\ Len(self.keys) = 2
    /\ stdout # <<>>

\* C3: in LFUCache, after every put or get, freq_map has exactly the keys of
\* cache_data, every cached key is in exactly one bucket of order_map, namely
\* the bucket of its freq_map count, and order_map has no empty bucket.
LFUConsistent ==
    self.cls = "LFUCache" =>
        /\ DictKeys(self.freq_map) = Cached
        /\ Len(self.cache_data) = Cardinality(Cached)
        /\ \A k \in Cached :
              /\ Cardinality({f \in DictKeys(self.order_map) :
                     k \in ODKeys(self.order_map[f])}) = 1
              /\ self.freq_map[k] \in DictKeys(self.order_map)
              /\ k \in ODKeys(self.order_map[self.freq_map[k]])
        /\ \A f \in DictKeys(self.order_map) :
              /\ self.order_map[f] # EmptyOD
              /\ ODKeys(self.order_map[f]) \subseteq Cached
              /\ Len(self.order_map[f]) =
                     Cardinality(ODKeys(self.order_map[f]))

\* an LFU cache with two buckets right after an eviction
LFUConsistentWitness ==
    /\ self.cls = "LFUCache"
    /\ stdout # <<>>
    /\ DictLen(self.order_map) = 2
    /\ Size = 2

\* C4: when a FIFOCache holding MAX_ITEMS entries is given a key it does not
\* hold, it evicts the head of `keys`, which is the cached key whose latest
\* put is the oldest; gets have no say (putOrder ignores them).
FIFOEvictsOldestPut ==
    [][FullPutOfNewKey("FIFOCache") =>
          /\ Evicts(Head(self.keys))
          /\ Head(self.keys) = First(putOrder, Cached)]_vars

\* capacity 2, puts of A, B, C in that order: the put of C discards A
FIFOWitness ==
    /\ self.cls = "FIFOCache" /\ self.MAX_ITEMS = 2
    /\ putOrder = <<"A", "B", "C">>
    /\ op.name = "put" /\ op.key = "C"
    /\ stdout = <<Discard("A")>>
    /\ Cached = {"B", "C"}

\* C5: when a LIFOCache holding MAX_ITEMS entries is given a key it does not
\* hold, it evicts the tail of `keys`, which is the key of the most recent
\* successful put; gets have no say.
LIFOEvictsLatestPut ==
    [][FullPutOfNewKey("LIFOCache") =>
          /\ Evicts(self.keys[Len(self.keys)])
          /\ self.keys[Len(self.keys)] = putOrder[Len(putOrder)]]_vars

\* capacity 2, puts of A, B, C in that order: the put of C discards B
LIFOWitness ==
    /\ self.cls = "LIFOCache" /\ self.MAX_ITEMS = 2
    /\ putOrder = <<"A", "B", "C">>
    /\ op.name = "put" /\ op.key = "C"
    /\ stdout = <<Discard("B")>>
    /\ Cached = {"A", "C"}

\* C6: when an MRUCache holding MAX_ITEMS entries is given a key it does not
\* hold, it evicts the cached key most recently touched by a successful put
\* or a hit get.
MRUEvictsLatestTouch ==
    [][FullPutOfNewKey("MRUCache") =>
          /\ Evicts(Last(touchOrder, Cached))
          /\ Last(touchOrder, Cached) = touchOrder[Len(touchOrder)]]_vars

\* capacity 2, put A, put B, get A, put C: the put of C discards A, B stays
MRUWitness ==
    /\ self.cls = "MRUCache" /\ self.MAX_ITEMS = 2
    /\ touchOrder = <<"B", "A", "C">>
    /\ op.name = "put" /\ op.key = "C"
    /\ stdout = <<Discard("A")>>
    /\ Cached = {"B", "C"}

Freq(k) == DictGetItem(self.freq_map, k)

MinFreqKeys == {k \in Cached : \A j \in Cached : Freq(k) <= Freq(j)}

\* C7: when an LFUCache holding MAX_ITEMS entries is given a key it does not
\* hold, the key it evicts has the least frequency count of all cached keys
\* and, among the cached keys with that count, the oldest latest touch.
LFUEvictsLeastFrequentOldest ==
    [][FullPutOfNewKey("LFUCache") =>
          /\ Evicts(First(touchOrder, MinFreqKeys))
          /\ First(touchOrder, MinFreqKeys) \in MinFreqKeys]_vars

\* capacity 2, put A, put B, get A twice, get B once, put C: B is discarded
LFUWitness ==
    /\ self.cls = "LFUCache" /\ self.MAX_ITEMS = 2
    /\ touchOrder = <<"A", "B", "C">>
    /\ op.name = "put" /\ op.key = "C"
    /\ stdout = <<Discard("B")>>
    /\ DictGet(self.freq_map, "A") = 3

\* s without x, the other elements in the order they had
Without(s, x) == SelectSeq(s, LAMBDA k : k # x)

Position(s, x) == CHOOSE i \in DOMAIN s : s[i] = x

\* C8 as stated: in FIFOCache and LIFOCache a put on a key already in the
\* cache leaves that key where it was in the order list.
UpdateKeepsPosition ==
    [][(self.cls \in {"FIFOCache", "LIFOCache"} /\ PutOfCachedKey) =>
          Position(self'.keys, op'.key) = Position(self.keys, op'.key)]_vars

\* C8 amended: in FIFOCache and LIFOCache a put on a key already in the cache
\* moves that key to the tail of the order list and keeps the other keys in
\* the order they had; the stored value is replaced.
UpdateMovesToTail ==
    [][(self.cls \in {"FIFOCache", "LIFOCache"} /\ PutOfCachedKey) =>
          /\ exc' = None
          /\ self'.keys = Append(Without(self.keys, op'.key), op'.key)
          /\ CacheGet(self', op'.key) = op'.item]_vars

\* a full cache of capacity 2 was given a key it holds (nothing was
\* discarded): the key is now the tail of the order list
UpdateMovesToTailWitness ==
    /\ self.cls \in {"FIFOCache", "LIFOCache"} /\ self.MAX_ITEMS = 2
    /\ Len(putOrder) = 3
    /\ op.name = "put" /\ op.key \in Cached /\ op.item # None
    /\ stdout = <<>>
    /\ self.keys[2] = op.key

\* C9: in every cache class put(None, x), put(x, None) and put(None, None)
\* leave the whole object as it was and print no DISCARD line.
NullPutChangesNothing ==
    [][(op'.name = "put" /\ (op'.key = None \/ op'.item = None)) =>
          /\ self' = self
          /\ stdout' = <<>>
          /\ exc' = None
          /\ ret' = None]_vars

\* put(None, x) was just called on a full LFU cache, which is as it was
NullPutWitness ==
    /\ self.cls = "LFUCache"
    /\ op.name = "put" /\ op.key = None /\ op.item # None
    /\ Size = self.MAX_ITEMS
    /\ DictLen(self.order_map) = 2

\* C10: in every bounded cache put(K, V2) on a cached key K keeps the set of
\* cached keys and the size, prints no DISCARD line, keeps the value of
\* every other key, and makes a following get(K) return V2.
UpdateKeepsOthers ==
    [][(IsBounded /\ PutOfCachedKey) =>
          /\ exc' = None
          /\ CacheKeys(self') = Cached
          /\ CacheLen(self') = Size
          /\ stdout' = <<>>
          /\ \A k \in Cached \ {op'.key} :
                 CacheGet(self', k) = CacheGet(self, k)
          /\ Get(self', op'.key).ret = op'.item
          /\ Get(self', op'.key).exc = None]_vars

\* a full LFU cache of capacity 2 was given, with item y, a key it held
\* (its count is past 1): nothing was discarded and both keys are there
UpdateKeepsOthersWitness ==
    /\ self.cls = "LFUCache" /\ self.MAX_ITEMS = 2
    /\ Len(touchOrder) = 3
    /\ op.name = "put" /\ op.key = "A" /\ op.item = "y"
    /\ self.freq_map["A"] = 2
    /\ self.cache_data = <<<<"B", "x">>, <<"A", "y">>>>
    /\ stdout = <<>>

\* the keys this step takes out of the cache
Removed == Cached \ CacheKeys(self')

\* this step is a put, with a key and an item, of a key that is not cached,
\* made when the cache holds MAX_ITEMS entries or more
PutThatMustEvict ==
    /\ op'.name = "put"
    /\ op'.key # None /\ op'.item # None
    /\ op'.key \notin Cached
    /\ Size >= self.MAX_ITEMS

\* C11: in every bounded cache an operation removes a key if and only if it
\* is a put with a key and an item, of a key that is not cached, into a cache
\* holding at least MAX_ITEMS entries; no get and no put of a cached key
\* removes a key.
RemovesOnlyWhenFull ==
    [][IsBounded => (Removed # {} <=> PutThatMustEvict)]_vars

\* a full LIFO cache of capacity 2 took a new key and lost another
RemovesOnlyWhenFullWitness ==
    /\ self.cls = "LIFOCache" /\ self.MAX_ITEMS = 2
    /\ op.name = "put" /\ op.key = "C"
    /\ Cached = {"A", "C"}
    /\ stdout = <<Discard("B")>>

\* C12: in every bounded cache a put that evicts removes exactly one key and
\* prints exactly one DISCARD line, which names it: the key was cached, is
\* no longer, and is not the key put; the other cached keys keep their
\* values; an operation that removes nothing prints no DISCARD line.
OneDiscardPerEviction ==
    [][IsBounded =>
          /\ Cardinality(Removed) <= 1
          /\ Removed = {} => stdout' = <<>>
          /\ \A k \in Removed :
                 /\ stdout' = <<Discard(k)>>
                 /\ k # op'.key
                 /\ op'.key \in CacheKeys(self')
          /\ \A k \in (Cached \ Removed) \ {op'.key} :
                 CacheGet(self', k) = CacheGet(self, k)]_vars

\* a full LFU cache of capacity 2 discarded B for C; A kept its item y
OneDiscardPerEvictionWitness ==
    /\ self.cls = "LFUCache" /\ self.MAX_ITEMS = 2
    /\ op.name = "put" /\ op.key = "C"
    /\ stdout = <<Discard("B")>>
    /\ Cached = {"A", "C"}
    /\ CacheGet(self, "A") = "y"

\* C13: in every cache class get(None) and get of a key that is not cached
\* return None, raise nothing and leave the whole object as it was.
MissChangesNothing ==
    [][(op'.name = "get" /\ op'.key \notin Cached) =>
          /\ ret' = None
          /\ exc' = None
          /\ self' = self
          /\ stdout' = <<>>]_vars

\* an LFU cache holding two keys with different counts was asked for a
\* third key
MissChangesNothingWitness ==
    /\ self.cls = "LFUCache"
    /\ op.name = "get" /\ op.key = "C"
    /\ Cached = {"A", "B"}
    /\ DictLen(self.order_map) = 2
    /\ ret = None /\ exc = None

\* C14: in FIFOCache and LIFOCache get of a cached key returns the stored
\* value and leaves cache_data and keys as they were, so the gets in a
\* sequence of calls have no say in what is evicted later.
HitLeavesOrder ==
    [][(self.cls \in {"FIFOCache", "LIFOCache"}
        /\ op'.name = "get" /\ op'.key \in Cached) =>
          /\ ret' = CacheGet(self, op'.key)
          /\ exc' = None
          /\ stdout' = <<>>
          /\ self' = self]_vars

\* a FIFO cache got its head key A: A is still the head
HitLeavesOrderWitness ==
    /\ self.cls = "FIFOCache"
    /\ op.name = "get" /\ op.key = "A"
    /\ self.keys = <<"A", "B">>
    /\ ret = "y"

\* C15: BasicCache never evicts: whatever MAX_ITEMS is, every key ever put
\* with a key and an item is in the cache, with the item of its latest put.
BasicNeverEvicts ==
    /\ [](self.cls = "BasicCache" => ListSet(putOrder) = Cached)
    /\ [][self.cls = "BasicCache" =>
             /\ Cached \subseteq CacheKeys(self')
             /\ \A k \in Cached \ {op'.key} :
                    CacheGet(self', k) = CacheGet(self, k)
             /\ (op'.name = "put" /\ op'.key # None /\ op'.item # None) =>
                    CacheGet(self', op'.key) = op'.item
             /\ (op'.name = "put" /\ op'.item = None) => self' = self
             /\ op'.name = "get" => self' = self]_vars

\* a BasicCache with MAX_ITEMS 1 holds three keys
BasicNeverEvictsWitness ==
    /\ self.cls = "BasicCache" /\ self.MAX_ITEMS = 1
    /\ Cached = {"A", "B", "C"}
    /\ putOrder = <<"A", "B", "C">>

\* C19: in LFUCache a key that is stored anew has count 1 and is the back of
\* bucket 1, also when it was cached and evicted before; a put or a get of
\* a cached key raises its count by exactly 1 and makes it the back of the
\* bucket of the new count; the counts of the other keys do not change.
LFUCountsTouches ==
    [][(self.cls = "LFUCache" /\ op'.key # None
        /\ (op'.name = "get" \/ (op'.name = "put" /\ op'.item # None))) =>
          LET key == op'.key
              was == IF key \in Cached THEN self.freq_map[key] ELSE 0
              count == IF key \in Cached \/ op'.name = "put"
                       THEN was + 1 ELSE 0
          IN /\ exc' = None
             /\ \A k \in CacheKeys(self') \ {key} :
                    self'.freq_map[k] = self.freq_map[k]
             /\ count = 0 => self' = self
             /\ count > 0 =>
                    /\ self'.freq_map[key] = count
                    /\ count \in DictKeys(self'.order_map)
                    /\ ODPopKey(self'.order_map[count], TRUE) = key]_vars

\* a full LFU cache of capacity 2 discarded a key to store B: B has count 1
\* and A, touched twice, still has count 2
LFUCountsTouchesWitness ==
    /\ self.cls = "LFUCache" /\ self.MAX_ITEMS = 2
    /\ op.name = "put" /\ op.key = "B"
    /\ stdout # <<>>
    /\ Cached = {"A", "B"}
    /\ self.freq_map["A"] = 2
    /\ self.freq_map["B"] = 1
    /\ touchOrder = <<"C", "A", "B">>

\* ---------------------------------------------------------- construction
\* The caches are built by the caller: the class is configured with a
\* capacity, which may be wrong, and then instantiated.
Capacities == (0 - 1)..MaxCapacity

NoObject == [cls |-> None]

\* BaseCaching.__init__ refuses a capacity that is not positive
BaseCaching_init_error_never(max_items) == None

BaseCaching_init_error(max_items) ==
    IF max_items >= 1 THEN None ELSE "ConfigurationError"

\* cls(): __init__ starts with super().__init__(), whose exception ends it
Construction(cls, max_items) ==
    LET e == BaseCaching_init_error(max_items)
    IN IF e # None
       THEN Outcome(NoObject, <<>>, None, e)
       ELSE Outcome(New(cls, max_items), <<>>, None, None)

InitConfig ==
    /\ self = NoObject
    /\ stdout = <<>>
    /\ ret = None
    /\ exc = None
    /\ op = NoCall
    /\ putOrder = <<>>
    /\ touchOrder = <<>>
    /\ callers = NoCallers
    /\ mutex = NoMutex

Construct ==
    /\ self = NoObject
    /\ \E cls \in Classes, max_items \in Capacities :
           LET r == Construction(cls, max_items)
           IN /\ self' = r.self
              /\ stdout' = r.out
              /\ ret' = r.ret
              /\ exc' = r.exc
              /\ op' = [name |-> "__init__", key |-> None, item |-> None,
                        cls |-> cls, max_items |-> max_items]
              /\ UNCHANGED <<putOrder, touchOrder, callers, mutex>>

NextConfig == Construct \/ Next

SpecConfig == InitConfig /\ [][NextConfig]_vars

MaxLines == 5
MaxPage == 3
MaxPageSize == 3

\* a file of n lines: line 0 is the header, lines 1..n-1 are the data rows
CsvFile(n) == [i \in 1..n |-> i - 1]
Pages == 0..MaxPage
PageSizes == 0..MaxPageSize

\* list[start:end] with 0 <= start <= end
Slice(list, start, end) ==
    LET stop == IF end < Len(list) THEN end ELSE Len(list)
    IN IF start >= stop THEN <<>> ELSE SubSeq(list, start + 1, stop)

\* Server(): the dataset is not loaded
Server_init(file) ==
    [cls |-> "Server", DATA_FILE |-> file, loaded |-> FALSE, dataset |-> <<>>]

\* dataset(): loads the file on the first call, without its first line
Server_dataset(s) ==
    IF ~s.loaded
    THEN LET dataset == s.DATA_FILE
             s1 == [s EXCEPT !.loaded = TRUE,
                             !.dataset = Slice(dataset, 1, Len(dataset))]
         IN Outcome(s1, <<>>, s1.dataset, None)
    ELSE Outcome(s, <<>>, s.dataset, None)

Server_index_range(page, page_size) ==
    LET start == (page - 1) * page_size
        end == start + page_size
    IN <<start, end>>

Server_get_page(s, page, page_size) ==
    IF ~(page > 0) THEN Outcome(s, <<>>, None, "AssertionError")
    ELSE IF ~(page_size > 0) THEN Outcome(s, <<>>, None, "AssertionError")
    ELSE LET range == Server_index_range(page, page_size)
             d == Server_dataset(s)
         IN Outcome(d.self, <<>>, Slice(d.ret, range[1], range[2]), None)

\* int < list: '<' is not supported between instances of int and list
IntLessList(a, b) == [ret |-> None, exc |-> "TypeError"]

\* the "prev_page" entry of the metadata
Server_prev_page(page) == IF page > 0 THEN page - 1 ELSE None

\* get_hyper(): the entries of the dict display are evaluated in order
Server_get_hyper(s, page, page_size) ==
    LET p == Server_get_page(s, page, page_size)
    IN IF p.exc # None THEN p
       ELSE LET data == p.ret
                d == Server_dataset(p.self)
                total_pages == (Len(d.ret) + page_size - 1) \div page_size
                less == IntLessList(page, data)
            IN IF less.exc # None
               THEN Outcome(d.self, <<>>, None, less.exc)
               ELSE Outcome(d.self, <<>>,
                        [page_size |-> IF page_size <= Len(data)
                                       THEN page_size ELSE Len(data),
                         page |-> page,
                         data |-> data,
                         next_page |-> IF less.ret THEN page + 1 ELSE None,
                         prev_page |-> Server_prev_page(page),
                         total_pages |-> total_pages],
                        None)

InitServer ==
    /\ \E n \in 0..MaxLines : self = Server_init(CsvFile(n))
    /\ stdout = <<>>
    /\ ret = None
    /\ exc = None
    /\ op = NoCall
    /\ putOrder = <<>>
    /\ touchOrder = <<>>
    /\ callers = NoCallers
    /\ mutex = NoMutex

ServerCall(name, page, page_size, r) ==
    /\ self' = r.self
    /\ stdout' = r.out
    /\ ret' = r.ret
    /\ exc' = r.exc
    /\ op' = [name |-> name, key |-> None, item |-> None,
              page |-> page, page_size |-> page_size]
    /\ UNCHANGED <<putOrder, touchOrder, callers, mutex>>

ServerDataset == ServerCall("dataset", 0, 0, Server_dataset(self))

ServerGetPage ==
    \E page \in Pages, page_size \in PageSizes :
        ServerCall("get_page", page, page_size,
                   Server_get_page(self, page, page_size))

ServerGetHyper ==
    \E page \in Pages, page_size \in PageSizes :
        ServerCall("get_hyper", page, page_size,
                   Server_get_hyper(self, page, page_size))

NextServer == ServerDataset \/ ServerGetPage \/ ServerGetHyper

SpecServer == InitServer /\ [][NextServer]_vars

\* a get_hyper call whose arguments pass the assertions of get_page
HyperCall == op.name = "get_hyper" /\ op.page >= 1 /\ op.page_size >= 1

\* total number of pages of the loaded dataset
TotalPages == (Len(self.dataset) + op.page_size - 1) \div op.page_size

\* C17: get_hyper returns prev_page = page - 1 when a previous page exists
\* and None when it does not, so None for page 1.
PrevPageContract ==
    HyperCall =>
        /\ exc = None
        /\ ret.prev_page = IF op.page > 1 THEN op.page - 1 ELSE None

\* C18: for every positive page and page_size get_hyper returns normally,
\* with next_page = page + 1 when page < total_pages and None otherwise.
NextPageContract ==
    HyperCall =>
        /\ exc = None
        /\ ret.next_page = IF op.page < TotalPages THEN op.page + 1 ELSE None

\* ------------------------------------------------------------- threads
\* Two threads share one FIFOCache. A thread runs put and get one statement
\* at a time (1-fifo_cache.py, lines 57-71 and 86-89), and the statements of
\* the two interleave unless the callers wrap each call in one lock.
MaxCalls == 2

ThreadIds == {"t1", "t2"}
ThreadItemArgs == {"x", None}

\* the frame of a thread that is not inside a call
Idle(calls) ==
    [pc |-> "idle", key |-> None, item |-> None, oldest_key |-> None,
     calls |-> calls]

\* `with lock:` around the call, when the callers use a lock
CanEnter == mutex \in {NoMutex, "free"}
Acquire(t) == IF mutex = NoMutex THEN NoMutex ELSE t
Release == IF mutex = NoMutex THEN NoMutex ELSE "free"

At(t, line) == callers[t].pc = line

\* thread t enters a method at its first statement
Enter(t, line, key, item) ==
    /\ At(t, "idle")
    /\ callers[t].calls < MaxCalls
    /\ CanEnter
    /\ callers' = [callers EXCEPT ![t] = [pc |-> line, key |-> key,
                                          item |-> item, oldest_key |-> None,
                                          calls |-> @.calls + 1]]
    /\ mutex' = Acquire(t)
    /\ UNCHANGED <<self, stdout, ret, exc, op, putOrder, touchOrder>>

\* thread t goes on to the statement at `line`, the object now being s
Goto(t, line, s) ==
    /\ self' = s
    /\ callers' = [callers EXCEPT ![t].pc = line]
    /\ UNCHANGED <<stdout, ret, exc, op, putOrder, touchOrder, mutex>>

\* the call of thread t ends, the object now being s: it returns r, or
\* raises e
Leave(t, s, r, e) ==
    /\ self' = s
    /\ callers' = [callers EXCEPT ![t] = Idle(@.calls)]
    /\ mutex' = Release
    /\ ret' = r
    /\ exc' = e
    /\ UNCHANGED <<stdout, op, putOrder, touchOrder>>

ThreadPut ==
    \E t \in ThreadIds, key \in KeyArgs, item \in ThreadItemArgs :
        Enter(t, "57", key, item)

ThreadGet ==
    \E t \in ThreadIds, key \in KeyArgs : Enter(t, "86", key, None)

\* if key is None or item is None: return
Line57 ==
    \E t \in ThreadIds :
        /\ At(t, "57")
        /\ IF IsNullPut(callers[t].key, callers[t].item)
           THEN Leave(t, self, None, None)
           ELSE Goto(t, "60", self)

\* if key in self.cache_data:
Line60 ==
    \E t \in ThreadIds :
        /\ At(t, "60")
        /\ IF callers[t].key \in DictKeys(self.cache_data)
           THEN Goto(t, "61", self)
           ELSE Goto(t, "65", self)

\* self.cache_data[key] = item
Line61 ==
    \E t \in ThreadIds :
        /\ At(t, "61")
        /\ Goto(t, "62", [self EXCEPT !.cache_data =
                              DictSetItem(@, callers[t].key, callers[t].item)])

\* self.keys.remove(key)
Line62 ==
    \E t \in ThreadIds :
        /\ At(t, "62")
        /\ IF ~ListHas(self.keys, callers[t].key)
           THEN Leave(t, self, None, "ValueError")
           ELSE Goto(t, "63",
                     [self EXCEPT !.keys = ListRemove(@, callers[t].key)])

\* self.keys.append(key), the last statement of the branch
Line63 ==
    \E t \in ThreadIds :
        /\ At(t, "63")
        /\ Leave(t, [self EXCEPT !.keys = Append(@, callers[t].key)],
                 None, None)

\* if len(self.cache_data) >= self.MAX_ITEMS:
Line65 ==
    \E t \in ThreadIds :
        /\ At(t, "65")
        /\ IF IsFull(self) THEN Goto(t, "66", self) ELSE Goto(t, "70", self)

\* oldest_key = self.keys.pop(0)
Line66 ==
    \E t \in ThreadIds :
        /\ At(t, "66")
        /\ IF self.keys = <<>>
           THEN Leave(t, self, None, "IndexError")
           ELSE LET popped == ListPop(self.keys, FIFOCache_pop_index(self))
                IN /\ self' = [self EXCEPT !.keys = popped.rest]
                   /\ callers' = [callers EXCEPT
                                      ![t].pc = "67",
                                      ![t].oldest_key = popped.item]
                   /\ UNCHANGED <<stdout, ret, exc, op, putOrder, touchOrder,
                                  mutex>>

\* del self.cache_data[oldest_key]
Line67 ==
    \E t \in ThreadIds :
        /\ At(t, "67")
        /\ IF callers[t].oldest_key \notin DictKeys(self.cache_data)
           THEN Leave(t, self, None, "KeyError")
           ELSE Goto(t, "68", [self EXCEPT !.cache_data =
                                   DictDelItem(@, callers[t].oldest_key)])

\* print(f"DISCARD: {oldest_key}")
Line68 ==
    \E t \in ThreadIds :
        /\ At(t, "68")
        /\ stdout' = <<Discard(callers[t].oldest_key)>>
        /\ callers' = [callers EXCEPT ![t].pc = "70"]
        /\ UNCHANGED <<self, ret, exc, op, putOrder, touchOrder, mutex>>

\* self.keys.append(key)
Line70 ==
    \E t \in ThreadIds :
        /\ At(t, "70")
        /\ Goto(t, "71", [self EXCEPT !.keys = Append(@, callers[t].key)])

\* self.cache_data[key] = item, the last statement of put
Line71 ==
    \E t \in ThreadIds :
        /\ At(t, "71")
        /\ Leave(t, [self EXCEPT !.cache_data =
                         DictSetItem(@, callers[t].key, callers[t].item)],
                 None, None)

\* if key is None: return None
Line86 ==
    \E t \in ThreadIds :
        /\ At(t, "86")
        /\ IF callers[t].key = None
           THEN Leave(t, self, None, None)
           ELSE Goto(t, "89", self)

\* return self.cache_data.get(key)
Line89 ==
    \E t \in ThreadIds :
        /\ At(t, "89")
        /\ Leave(t, self, DictGet(self.cache_data, callers[t].key), None)

InitThreads ==
    /\ \E max_items \in 1..MaxCapacity : self = FIFOCache_init(max_items)
    /\ stdout = <<>>
    /\ ret = None
    /\ exc = None
    /\ op = NoCall
    /\ putOrder = <<>>
    /\ touchOrder = <<>>
    /\ callers = [t \in ThreadIds |-> Idle(0)]
    /\ mutex \in {NoMutex, "free"}

NextThreads ==
    \/ ThreadPut \/ ThreadGet
    \/ Line57 \/ Line60 \/ Line61 \/ Line62 \/ Line63
    \/ Line65 \/ Line66 \/ Line67 \/ Line68 \/ Line70 \/ Line71
    \/ Line86 \/ Line89

SpecThreads == InitThreads /\ [][NextThreads]_vars

\* no thread is inside a call
Quiescent == \A t \in ThreadIds : At(t, "idle")

\* self.keys lists exactly the keys of self.cache_data, each once
TrackerAgrees ==
    /\ ListSet(self.keys) = DictKeys(self.cache_data)
    /\ Len(self.keys) = DictLen(self.cache_data)

\* C20: when every put and get runs under one lock, no call fails, only the
\* lock's holder is inside a call, and between calls the cache holds at most
\* MAX_ITEMS entries and keys lists exactly the keys of cache_data, whatever
\* the interleaving; without the lock a state breaking this is reachable
\* (UnlockedBreaksCache).
MutexKeepsCache ==
    mutex # NoMutex =>
        /\ exc = None
        /\ \A t \in ThreadIds : ~At(t, "idle") => mutex = t
        /\ mutex = "free" =>
               /\ DictLen(self.cache_data) <= self.MAX_ITEMS
               /\ TrackerAgrees

\* without a lock, both threads have returned from interleaved puts and the
\* cache is left with more than MAX_ITEMS entries and a tracker that
\* disagrees with the store
UnlockedBreaksCache ==
    /\ mutex = NoMutex
    /\ Quiescent
    /\ exc = None
    /\ DictLen(self.cache_data) > self.MAX_ITEMS
    /\ ~TrackerAgrees

\* the last call was a put with a key and an item that are not None
NonNullPut == op.name = "put" /\ op.key # None /\ op.item # None

\* C21: in every cache class with MAX_ITEMS >= 1, right after put(K, V) with
\* K and V not None the put has not failed, K is in the cache and get(K)
\* returns V, also when the put evicted: the key just put is never the victim.
PutThenGet ==
    NonNullPut =>
        /\ exc = None
        /\ op.key \in Cached
        /\ Get(self, op.key).ret = op.item
        /\ Get(self, op.key).exc = None
        /\ \A k \in Keys : stdout = <<Discard(k)>> => k # op.key

\* a full LIFOCache has just evicted for put("C", "y"), and holds C -> y
PutThenGetWitness ==
    /\ self.cls = "LIFOCache" /\ self.MAX_ITEMS = 2
    /\ NonNullPut /\ op.key = "C" /\ op.item = "y"
    /\ stdout = <<Discard("B")>>
    /\ Get(self, "C").ret = "y"
    /\ self.keys = <<"A", "C">>

\* ------------------------------------------------------- LIFO beside MRU
\* A LIFOCache and an MRUCache with the same MAX_ITEMS are given the same
\* calls, one after the other; stdout, ret and exc hold what each of the two
\* printed since construction, returned and raised.
MaxHistory == 5

Both(lifo, mru) == [lifo |-> lifo, mru |-> mru]

\* no call yet; calls counts the calls made, hit tells whether a get has hit
NoPairCall ==
    [name |-> "init", key |-> None, item |-> None, calls |-> 0, hit |-> FALSE]

InitPair ==
    /\ \E max_items \in 1..MaxCapacity :
           self = [cls |-> "LIFOCache, MRUCache",
                   lifo |-> LIFOCache_init(max_items),
                   mru |-> MRUCache_init(max_items)]
    /\ stdout = Both(<<>>, <<>>)
    /\ ret = Both(None, None)
    /\ exc = Both(None, None)
    /\ op = NoPairCall
    /\ putOrder = <<>>
    /\ touchOrder = <<>>
    /\ callers = NoCallers
    /\ mutex = NoMutex

\* the same call made on both objects, with outcomes l and m
PairCall(name, key, item, l, m) ==
    /\ op.calls < MaxHistory
    /\ self' = [self EXCEPT !.lifo = l.self, !.mru = m.self]
    /\ stdout' = Both(stdout.lifo \o l.out, stdout.mru \o m.out)
    /\ ret' = Both(l.ret, m.ret)
    /\ exc' = Both(l.exc, m.exc)
    /\ op' = [name |-> name, key |-> key, item |-> item,
              calls |-> op.calls + 1,
              hit |-> op.hit \/ (name = "get" /\ (l.ret # None \/ m.ret # None))]
    /\ UNCHANGED <<putOrder, touchOrder, callers, mutex>>

PairPut ==
    \E key \in KeyArgs, item \in ItemArgs :
        PairCall("put", key, item,
                 LIFOCache_put(self.lifo, key, item),
                 MRUCache_put(self.mru, key, item))

PairGet ==
    \E key \in KeyArgs :
        PairCall("get", key, None,
                 LIFOCache_get(self.lifo, key),
                 MRUCache_get(self.mru, key))

NextPair == PairPut \/ PairGet

SpecPair == InitPair /\ [][NextPair]_vars

\* the keys of an OrderedDict, in its order
ODOrder(d) == [i \in DOMAIN d |-> d[i][1]]

\* the two caches hold the same items under the same keys
SameMap ==
    /\ DictKeys(self.lifo.cache_data) = ODKeys(self.mru.cache_data)
    /\ \A k \in DictKeys(self.lifo.cache_data) :
           DictGetItem(self.lifo.cache_data, k) =
               ODGetItem(self.mru.cache_data, k)

\* C22: given the same MAX_ITEMS and the same calls, as long as no get has
\* hit, a LIFOCache and an MRUCache hold the same key-to-value map, order
\* their keys the same way, have printed the same DISCARD lines and have
\* returned the same; after a hit get on a key that is not the tail they can
\* differ (PairDivergesAfterHit).
PutOnlyEquivalent ==
    ~op.hit =>
        /\ SameMap
        /\ self.lifo.keys = ODOrder(self.mru.cache_data)
        /\ stdout.lifo = stdout.mru
        /\ ret.lifo = ret.mru
        /\ exc = Both(None, None)

\* put A, put B, get A (a hit, A is not the tail), put C at capacity 2: the
\* LIFOCache discarded B, the MRUCache discarded A
PairDivergesAfterHit ==
    /\ op.hit
    /\ self.lifo.MAX_ITEMS = 2
    /\ self.lifo.keys = <<"A", "C">>
    /\ ODOrder(self.mru.cache_data) = <<"B", "C">>
    /\ stdout = Both(<<Discard("B")>>, <<Discard("A")>>)

\* ------------------------------------------------------------ FIFO aging
\* A FIFOCache whose calls are recorded with, for every cached key, the
\* number of puts of keys not in the cache made since that key's latest put.
NoAgingCall ==
    [name |-> "init", key |-> None, item |-> None,
     since |-> [k \in Keys |-> 0]]

InitAging ==
    /\ \E max_items \in 1..MaxCapacity : self = FIFOCache_init(max_items)
    /\ stdout = <<>>
    /\ ret = None
    /\ exc = None
    /\ op = NoAgingCall
    /\ putOrder = <<>>
    /\ touchOrder = <<>>
    /\ callers = NoCallers
    /\ mutex = NoMutex

\* the counts after a call with outcome r: a put resets the count of its key
\* and, when its key was not cached, adds one to the counts of the others
Since(name, key, item, r) ==
    LET stores == name = "put" /\ ~IsNullPut(key, item) /\ r.exc = None
        new == stores /\ key \notin DictKeys(self.cache_data)
    IN [k \in Keys |->
           IF k \notin DictKeys(r.self.cache_data) THEN 0
           ELSE IF stores /\ k = key THEN 0
           ELSE IF new THEN op.since[k] + 1
           ELSE op.since[k]]

AgingCall(name, key, item, r) ==
    LET since == Since(name, key, item, r)
    IN /\ \A k \in Keys : since[k] <= MaxCapacity + 1
       /\ self' = r.self
       /\ stdout' = r.out
       /\ ret' = r.ret
       /\ exc' = r.exc
       /\ op' = [name |-> name, key |-> key, item |-> item, since |-> since]
       /\ UNCHANGED <<putOrder, touchOrder, callers, mutex>>

AgingPut ==
    \E key \in KeyArgs, item \in ItemArgs :
        AgingCall("put", key, item, FIFOCache_put(self, key, item))

AgingGet ==
    \E key \in KeyArgs :
        AgingCall("get", key, None, FIFOCache_get(self, key))

NextAging == AgingPut \/ AgingGet

SpecAging == InitAging /\ [][NextAging]_vars

\* C23: in a FIFOCache a cached key has seen fewer than MAX_ITEMS puts of
\* keys not in the cache since its latest put: by the time MAX_ITEMS such
\* puts have been made, a key that was not put again is out of the cache.
FIFOAgesOut ==
    \A k \in Keys :
        k \in DictKeys(self.cache_data) => op.since[k] < self.MAX_ITEMS

\* capacity 2, A cached: after the puts of two keys that were not cached, B
\* and then C, A is out, and B has one such put behind it
FIFOAgesOutWitness ==
    /\ self.MAX_ITEMS = 2
    /\ op.name = "put" /\ op.key = "C"
    /\ stdout = <<Discard("A")>>
    /\ self.keys = <<"B", "C">>
    /\ op.since["B"] = 1
    /\ op.since["C"] = 0

====
